---- MODULE Spec2Model ----
(***************************************************************************)
(* State-machine model of ClipboardSyncExtension (src/unnamed/part_000):   *)
(* the sync server (_processIncoming / _handlePayload), the reconciliation *)
(* rule (_shouldAcceptUpdate), the poller (_pollRemote), the local change  *)
(* path (_onOwnerChange / _checkLocalClipboard / _publishClipboard) and    *)
(* shutdown (disable).                                                     *)
(*                                                                         *)
(* Encoding of JavaScript values:                                          *)
(*   - a text is a natural number; 0 is the empty string '';               *)
(*   - Undef (-1) is a missing / non-numeric / non-string field;           *)
(*   - a missing string field is the string "undefined";                   *)
(*   - null for a selection is NullSel (-1).                               *)
(***************************************************************************)
EXTENDS Integers, FiniteSets, Sequences, TLC

\* ---------------------------------------------------------------- bounds
MaxTs == 2
MaxText == 1
MaxClock == 2
MaxSignals == 2
MaxPending == 1
MaxTimers == 2
MaxInterval == 2

\* ------------------------------------------------------ program constants
\* St.ClipboardType, as used by SELECTION_KEYS.
CLIPBOARD == 1
PRIMARY == 0

Undef == 0 - 1
NullSel == 0 - 1
NoField == "undefined"

LocalNodeId == "B"
PeerNodeId == "A"
NullNode == "null"
Secret == "s"

\* settings 'peer-endpoint': unset, or the URI of the peer.
NoEndpoint == ""
PeerEndpoint == "tcp://peer"

Keys == {"CLIPBOARD", "PRIMARY"}

\* SELECTION_KEYS = new Map([[CLIPBOARD,'CLIPBOARD'],[PRIMARY,'PRIMARY']])
SELECTION_KEYS == << <<CLIPBOARD, "CLIPBOARD">>, <<PRIMARY, "PRIMARY">> >>

\* ----------------------------------------------------------- input sets
Texts == 0..MaxText
TextFields == {Undef} \cup (1..MaxText)
TsFields == {Undef} \cup (0..MaxTs)
NodeFields == {LocalNodeId, PeerNodeId, NoField}
SelFields == {"CLIPBOARD", "PRIMARY", "OTHER", NoField}
TypeFields == {"update", "pull", "other", NoField}
SecretFields == {Secret, "wrong", NoField}

\* A parsed request object (the Message of the wire protocol).
Msg(ty, nd, sel, ts, tx, sec) ==
    [type |-> ty, node |-> nd, selection |-> sel, timestamp |-> ts,
     text |-> tx, secret |-> sec]

NoPayload == Msg("none", NoField, NoField, Undef, Undef, NoField)

\* Requests that carry the right secret and are (or default to) updates:
\* every combination of the fields _handlePayload reads.
UpdatePayloads ==
    { Msg(ty, nd, sel, ts, tx, Secret) :
        ty \in {"update", NoField}, nd \in NodeFields, sel \in SelFields,
        ts \in TsFields, tx \in TextFields }

\* The other requests (a pull, an unsupported type, a wrong or missing
\* secret) come in two shapes: with the fields of a well-formed update of
\* the peer, and with all of them missing.
OtherPayloads ==
    { Msg(ty, nd, sel, ts, ts, sec) :
        ty \in TypeFields, nd \in {PeerNodeId, NoField}, sel \in SelFields,
        ts \in {Undef, 1}, sec \in SecretFields }

Payloads ==
    UpdatePayloads \cup
    { p \in OtherPayloads :
        /\ (p.node = NoField) = (p.timestamp = Undef)
        /\ p.secret # Secret \/ p.type \in {"pull", "other"} }

\* The requests a peer running this program sends, and pulls for both keys.
CorePayloads ==
    { p \in Payloads :
        /\ p.secret = Secret
        /\ p.selection \in Keys
        /\ \/ p.type = "pull"
           \/ /\ p.type = "update"
              /\ p.node # NoField
              /\ p.timestamp # Undef }

\* The peer's updates with a text and a timestamp of its clock, and pulls.
PeerPayloads ==
    { p \in CorePayloads :
        p.type = "update" => (p.node = PeerNodeId /\ p.timestamp > 0 /\ p.text # Undef) }

\* What read_line_async hands to _processIncoming:
\*   "null"     no line (end of stream): !line is true
\*   "garbage"  bytes that JSON.parse rejects (a zero-length line included)
\*   "scalar"   JSON that is not an object (null, a number, a string)
\*   "object"   a JSON object
\*   "throw"    the read itself fails
LineKinds == {"null", "garbage", "scalar", "object", "throw"}

\* ------------------------------------------------------------ responses
Response(st, msg) ==
    [status |-> st, message |-> msg, type |-> NoField, node |-> NoField,
     selection |-> NoField, timestamp |-> Undef, text |-> Undef]

PullReply(nd, sel, ts, tx) ==
    [status |-> "ok", message |-> NoField, type |-> "update", node |-> nd,
     selection |-> sel, timestamp |-> ts, text |-> tx]

NoResponse == Response("none", NoField)

\* Response objects a peer may send to a pull request.
PullResponses ==
    { PullReply(nd, sel, ts, tx) :
        nd \in NodeFields, sel \in SelFields, ts \in TsFields, tx \in Texts }
    \cup { Response("empty", NoField), Response("unauthorized", NoField) }

\* The responses a peer running this program sends to a pull.
CoreResponses ==
    { r \in PullResponses :
        r.status = "ok" => (r.node # NoField /\ r.selection \in Keys /\ r.timestamp # Undef) }

\* ------------------------------------------------------------ StateStore
StateRecord(tx, ts, nd) ==
    [present |-> TRUE, text |-> tx, timestamp |-> ts, node |-> nd]

NoState == [present |-> FALSE, text |-> Undef, timestamp |-> Undef, node |-> NoField]

VARIABLES
    enabled,               \* between enable() and disable()
    syncPrimary,           \* settings 'sync-primary'
    nodeId,                \* this._nodeId
    latestState,           \* this._latestState : key -> record
    suppressedSelections,  \* this._suppressedSelections
    clipboard,             \* host clipboard content per key (Undef: no text)
    owner,                 \* who set the content of each key: "none", "user"
                           \*   or "remote" (_setClipboardFromRemote)
    now,                   \* Date.now()
    pollInterval,          \* settings 'poll-interval'
    peerEndpoint,          \* settings 'peer-endpoint'
    conns,                 \* inbound connections being processed
    pollId,                \* this._pollId (0: no timer armed)
    pollSources,           \* number of live GLib sources created by _updatePolling
    polls,                 \* outbound pull requests in flight
    selectionSignalId,     \* this._selectionSignalId (0: not connected)
    localWatchId,          \* this._localWatchId (0: no watch timer)
    signals,               \* 'owner-changed' emissions not yet delivered, per key
    getText,               \* get_text callbacks not yet run, per key and caller
    observedText,          \* this._observedText (Undef: no entry)
    accepted,              \* history: the update last answered 'ok', while its
                           \*   record is the stored one
    handled,               \* history: the request the last step handled
    polled,                \* history: the pull response the last step handled
    published,             \* history: what the last step published
    sentPayload,           \* history: the message the last step gave to _sendMessage
    peerState,             \* the peer node: its StateStore
    peerNow,               \* the peer node: its Date.now()
    inbox,                 \* updates pushed by the peer, not yet read by the server
    outbox,                \* updates pushed to the peer, not yet read by it
    stamps                 \* history: how many pushed updates carry each timestamp

settingsVars == <<enabled, syncPrimary, nodeId, now, pollInterval, peerEndpoint>>
storeVars == <<latestState, suppressedSelections, clipboard, owner, signals>>
netVars == <<conns, pollId, pollSources, polls>>
localVars == <<selectionSignalId, localWatchId, getText, observedText>>
historyVars == <<accepted, handled, polled, published, sentPayload>>
peerVars == <<peerState, peerNow, inbox, outbox, stamps>>

vars == <<settingsVars, storeVars, netVars, localVars, historyVars, peerVars>>

\* ------------------------------------------------------- pure functions
\* JavaScript truthiness of a value returned by _selectionFromKey:
\* null and the number 0 are both falsy.
Falsy(selection) == selection = NullSel \/ selection = 0

\* _selectionFromKey(key): walks SELECTION_KEYS in insertion order.
RECURSIVE SelectionFromKeyAt(_, _, _)
SelectionFromKeyAt(i, key, sp) ==
    IF i > Len(SELECTION_KEYS) THEN NullSel
    ELSE LET selection == SELECTION_KEYS[i][1]
             name == SELECTION_KEYS[i][2]
         IN IF name = key
            THEN IF selection = PRIMARY /\ ~sp THEN NullSel ELSE selection
            ELSE SelectionFromKeyAt(i + 1, key, sp)

SelectionFromKey(key, sp) == SelectionFromKeyAt(1, key, sp)

\* _selectionKey(selection): SELECTION_KEYS.get(selection) || 'CLIPBOARD'
SelectionKey(selection) ==
    IF \E i \in 1..Len(SELECTION_KEYS) : SELECTION_KEYS[i][1] = selection
    THEN LET i == CHOOSE j \in 1..Len(SELECTION_KEYS) : SELECTION_KEYS[j][1] = selection
         IN SELECTION_KEYS[i][2]
    ELSE "CLIPBOARD"

\* a < b on JavaScript numbers, where undefined / NaN compares false.
JsLess(a, b) == a # Undef /\ b # Undef /\ a < b

\* Number(payload.timestamp) || Date.now()
EffectiveTimestamp(ts, clock) == IF ts = Undef \/ ts = 0 THEN clock ELSE ts

\* payload.node || 'remote'
EffectiveNode(nd) == IF nd = NoField THEN "remote" ELSE nd

\* typeof payload.text === 'string' ? payload.text : ''
EffectiveText(tx) == IF tx = Undef THEN 0 ELSE tx

\* payload.type || 'update'
EffectiveType(ty) == IF ty = NoField THEN "update" ELSE ty

\* payload.selection || 'CLIPBOARD'   (pull only)
PullKey(sel) == IF sel = NoField THEN "CLIPBOARD" ELSE sel

\* this._latestState.get(key) for an arbitrary string key.
StateGet(store, key) == IF key \in Keys THEN store[key] ELSE NoState

\* Mutant: the self-echo test comes after the test for a stored record.
ShouldAcceptLine_RecordFirst(store, self, selection, timestamp, sourceNode, text) ==
    LET key == SelectionKey(selection)
        current == store[key]
    IN IF ~current.present THEN 240
       ELSE IF sourceNode = self THEN 237
       ELSE IF JsLess(timestamp, current.timestamp) THEN 243
       ELSE IF timestamp = current.timestamp /\ text = current.text THEN 246
       ELSE 248

\* _shouldAcceptUpdate: the line of the return statement that is reached.
ShouldAcceptLine(store, self, selection, timestamp, sourceNode, text) ==
    LET key == SelectionKey(selection)
        current == store[key]
    IN IF sourceNode = self THEN 237
       ELSE IF ~current.present THEN 240
       ELSE IF JsLess(timestamp, current.timestamp) THEN 243
       ELSE IF timestamp = current.timestamp /\ text = current.text THEN 246
       ELSE 248

ShouldAcceptUpdate(store, self, selection, timestamp, sourceNode, text) ==
    ShouldAcceptLine(store, self, selection, timestamp, sourceNode, text) \in {240, 248}

\* _recordState
RecordState(store, selection, text, timestamp, node) ==
    [store EXCEPT ![SelectionKey(selection)] = StateRecord(text, timestamp, node)]

\* _handlePayload for a JSON object, while the extension is enabled.
\* Result: the response, the line of the return statement, and whether the
\* update is applied (with the resolved selection, timestamp, node and text).
Outcome(resp, line) ==
    [response |-> resp, ret |-> line, apply |-> FALSE, selection |-> NullSel,
     timestamp |-> Undef, node |-> NoField, text |-> Undef]

\* Mutant: a request without a secret field passes.
Authorized_MissingPasses(payload) == payload.secret = NoField \/ payload.secret = Secret

\* payload.secret === expectedSecret
Authorized(payload) == payload.secret = Secret

\* Mutant: the reply carries the node recorded with the record.
PullAnswer_OriginNode(selection, store, self) ==
    LET state == StateGet(store, PullKey(selection)) IN
    IF ~state.present THEN Outcome(Response("empty", NoField), 200)
    ELSE Outcome(PullReply(state.node, PullKey(selection), state.timestamp, state.text), 203)

\* The 'pull' branch of _handlePayload.
PullAnswer(selection, store, self) ==
    LET state == StateGet(store, PullKey(selection)) IN
    IF ~state.present THEN Outcome(Response("empty", NoField), 200)
    ELSE Outcome(PullReply(self, PullKey(selection), state.timestamp, state.text), 203)

HandlePayload(payload, store, self, sp, clock) ==
    IF ~Authorized(payload) THEN Outcome(Response("unauthorized", NoField), 174)
    ELSE LET type == EffectiveType(payload.type) IN
      IF type = "update" THEN
        LET selection == SelectionFromKey(payload.selection, sp) IN
        IF Falsy(selection) THEN Outcome(Response("error", "Unknown selection"), 181)
        ELSE LET timestamp == EffectiveTimestamp(payload.timestamp, clock)
                 sourceNode == EffectiveNode(payload.node)
                 text == EffectiveText(payload.text)
             IN IF ~ShouldAcceptUpdate(store, self, selection, timestamp, sourceNode, text)
                THEN Outcome(Response("ignored", NoField), 189)
                ELSE [response |-> Response("ok", NoField), ret |-> 194, apply |-> TRUE,
                      selection |-> selection, timestamp |-> timestamp,
                      node |-> sourceNode, text |-> text]
      ELSE IF type = "pull" THEN PullAnswer(payload.selection, store, self)
      ELSE Outcome(Response("error", "Unsupported payload type: other"), 213)

\* The StateStore after _handlePayload has handled the payload.
AfterUpdate(store, payload, self, sp, clock) ==
    LET out == HandlePayload(payload, store, self, sp, clock) IN
    IF out.apply
    THEN RecordState(store, out.selection, out.text, out.timestamp, out.node)
    ELSE store

\* Mutant: no early return when the read yields no line; decoding it throws.
ProcessLine_NoEarlyReturn(kind, payload, en, store, self, sp, clock) ==
    IF kind \in {"throw", "null", "garbage"} \/ ~en
    THEN Outcome(Response("error", "exception"), 147)
    ELSE IF kind = "scalar" THEN Outcome(Response("error", "Invalid payload"), 169)
    ELSE HandlePayload(payload, store, self, sp, clock)

\* The try block of _processIncoming: from the completed read to the response.
ProcessLine(kind, payload, en, store, self, sp, clock) ==
    IF kind = "throw" THEN Outcome(Response("error", "exception"), 147)
    ELSE IF kind = "null" THEN Outcome(Response("ignored", NoField), 140)
    ELSE IF ~en THEN Outcome(Response("error", "exception"), 147)   \* _textDecoder is null
    ELSE IF kind = "garbage" THEN Outcome(Response("error", "exception"), 147)
    ELSE IF kind = "scalar" THEN Outcome(Response("error", "Invalid payload"), 169)
    ELSE HandlePayload(payload, store, self, sp, clock)

\* ---------------------------------------------------------------- state
\* An inbound connection: where _processIncoming stands, the response it
\* holds, the line of the return statement that produced it, the number of
\* response lines written and the number of I/O failures logged.
Conn(pc, response, ret, wrote, logged) ==
    [pc |-> pc, response |-> response, ret |-> ret, wrote |-> wrote, logged |-> logged]

IdleConn == Conn("idle", NoResponse, 0, 0, 0)

Poll(pc, response) == [pc |-> pc, response |-> response]

IdlePoll == Poll("idle", NoResponse)

\* History of one step of _processIncoming: the connection, the line that
\* was read and the parsed payload.
Handled(c, kind, payload) == [conn |-> c, line |-> kind, payload |-> payload]

NotHandled == Handled("none", "none", NoPayload)

\* History of one step of _pollRemote: the response it was given and the
\* line of the return statement (0: fell off the end, -1: threw).
Polled(response, line) == [response |-> response, ret |-> line]

NotPolled == Polled(NoResponse, 0)

\* History of one call of _publishClipboard: the key, the text, the timestamp
\* and whether the payload reached _sendMessage.
Published(key, text, timestamp, sent) ==
    [key |-> key, text |-> text, timestamp |-> timestamp, sent |-> sent]

NotPublished == Published("none", Undef, Undef, FALSE)

\* The pending get_text callbacks: <<key, TRUE>> is the callback passed by
\* _onOwnerChange, <<key, FALSE>> the one passed by _checkLocalClipboard.
Callbacks == Keys \X BOOLEAN

\* The connections and the pull requests in flight at a time.
Connections == {"c1"}
PullRequests == {"q1"}

\* How many pushed updates carry a timestamp: 0, 1, or 2 for "several".
NoStamps == [ts \in 1..MaxClock |-> 0]

Stamp(st, ts) == [st EXCEPT ![ts] = IF @ < 2 THEN @ + 1 ELSE @]

\* enable(): either the 'owner-changed' signal is connected (native) or the
\* connect throws and the local watch is started; _updatePolling arms the
\* poll timer if 'poll-interval' is positive.
InitWith(cs, qs, natives, intervals, endpoints) ==
    /\ enabled = TRUE
    /\ syncPrimary \in BOOLEAN
    /\ nodeId = LocalNodeId
    /\ latestState = [k \in Keys |-> NoState]
    /\ suppressedSelections = {}
    /\ clipboard = [k \in Keys |-> Undef]
    /\ owner = [k \in Keys |-> "none"]
    /\ now \in 1..MaxClock
    /\ pollInterval \in intervals
    /\ peerEndpoint \in endpoints
    /\ conns = [c \in cs |-> IdleConn]
    /\ pollId = (IF pollInterval > 0 THEN 1 ELSE 0)
    /\ pollSources = (IF pollInterval > 0 THEN 1 ELSE 0)
    /\ polls = [q \in qs |-> IdlePoll]
    /\ \E native \in natives :
          /\ selectionSignalId = IF native THEN 1 ELSE 0
          /\ localWatchId = IF native THEN 0 ELSE 1
    /\ signals = [k \in Keys |-> 0]
    /\ getText = [cb \in Callbacks |-> 0]
    /\ observedText = [k \in Keys |-> Undef]
    /\ accepted = NoPayload
    /\ handled = NotHandled
    /\ polled = NotPolled
    /\ published = NotPublished
    /\ sentPayload = NoPayload
    /\ peerState = [k \in Keys |-> NoState]
    /\ peerNow = 1
    /\ inbox = {}
    /\ outbox = {}
    /\ stamps = NoStamps

Init == InitWith(Connections, PullRequests, BOOLEAN, {0, 1}, {NoEndpoint, PeerEndpoint})

\* --------------------------------------------------------------- actions
NoHistory ==
    /\ handled' = NotHandled
    /\ polled' = NotPolled
    /\ published' = NotPublished
    /\ sentPayload' = NoPayload
    /\ accepted' = accepted

\* The record of the key changes by another way than the accepted update.
Overwrites(key) == accepted' = IF accepted.selection = key THEN NoPayload ELSE accepted

\* The wall clock advances.
Tick ==
    /\ now < MaxClock
    /\ now' = now + 1
    /\ NoHistory
    /\ UNCHANGED <<enabled, syncPrimary, nodeId, pollInterval, peerEndpoint,
                   storeVars, netVars, localVars, peerVars>>

\* The user flips 'sync-primary' in the preferences (handler: () => {}).
SetSyncPrimary ==
    /\ enabled
    /\ syncPrimary' = ~syncPrimary
    /\ NoHistory
    /\ UNCHANGED <<enabled, nodeId, now, pollInterval, peerEndpoint,
                   storeVars, netVars, localVars, peerVars>>

\* _handleIncoming: the listener hands over a new connection.
HandleIncoming(c) ==
    /\ enabled
    /\ conns[c].pc \in {"idle", "closed"}
    /\ conns' = [conns EXCEPT ![c] = Conn("reading", NoResponse, 0, 0, 0)]
    /\ NoHistory
    /\ UNCHANGED <<settingsVars, storeVars, pollId, pollSources, polls, localVars, peerVars>>

\* The host clipboard gets a new owner: with the signal connected, one more
\* 'owner-changed' emission awaits delivery.
OwnerChanged(key) ==
    IF selectionSignalId # 0
    THEN signals[key] < MaxSignals /\ signals' = [signals EXCEPT ![key] = @ + 1]
    ELSE signals' = signals

\* Mutant: the channel is not marked before the clipboard is written.
ApplyRemote_NoMark(selection, text, timestamp, node) ==
    /\ suppressedSelections' = suppressedSelections
    /\ clipboard' = [clipboard EXCEPT ![SelectionKey(selection)] = text]
    /\ owner' = [owner EXCEPT ![SelectionKey(selection)] = "remote"]
    /\ OwnerChanged(SelectionKey(selection))
    /\ latestState' = RecordState(latestState, selection, text, timestamp, node)

\* _setClipboardFromRemote followed by _recordState.
ApplyRemote(selection, text, timestamp, node) ==
    /\ suppressedSelections' = suppressedSelections \cup {SelectionKey(selection)}
    /\ clipboard' = [clipboard EXCEPT ![SelectionKey(selection)] = text]
    /\ owner' = [owner EXCEPT ![SelectionKey(selection)] = "remote"]
    /\ OwnerChanged(SelectionKey(selection))
    /\ latestState' = RecordState(latestState, selection, text, timestamp, node)

\* _processIncoming, from the completion of read_line_async up to the first
\* await of the finally block: the line is decoded, parsed and handled.
ProcessIncoming(c, kind, payload) ==
    /\ conns[c].pc = "reading"
    /\ kind = "object" \/ payload = NoPayload
    /\ LET out == ProcessLine(kind, payload, enabled, latestState, nodeId, syncPrimary, now)
       IN /\ conns' = [conns EXCEPT ![c] = Conn("replying", out.response, out.ret, 0, 0)]
          /\ handled' = Handled(c, kind, payload)
          /\ IF out.apply
             THEN /\ ApplyRemote(out.selection, out.text, out.timestamp, out.node)
                  /\ accepted' = payload
             ELSE UNCHANGED <<storeVars, accepted>>
    /\ polled' = NotPolled
    /\ published' = NotPublished
    /\ sentPayload' = NoPayload
    /\ inbox' = inbox \ {payload}
    /\ UNCHANGED <<settingsVars, pollId, pollSources, polls, localVars,
                   peerState, peerNow, outbox, stamps>>

\* Mutant: a failed write is not caught, so the connection is never closed
\* and the reply is written again.
WriteReply_Retry(c, ok) ==
    /\ conns[c].pc = "replying"
    /\ conns' = [conns EXCEPT ![c] =
                    IF ok THEN Conn("flushing", NoResponse, 0, @.wrote + 1, @.logged)
                    ELSE [@ EXCEPT !.wrote = 1]]
    /\ handled' = NotHandled
    /\ polled' = NotPolled
    /\ published' = NotPublished
    /\ sentPayload' = NoPayload
    /\ accepted' = accepted
    /\ UNCHANGED <<settingsVars, storeVars, pollId, pollSources, polls, localVars, peerVars>>

\* write_all_async of the reply completes (ok) or fails (~ok): a failure is
\* logged and connection.close() follows at once.
WriteReply(c, ok) ==
    /\ conns[c].pc = "replying"
    /\ conns' = [conns EXCEPT ![c] =
                    IF ok THEN Conn("flushing", NoResponse, 0, @.wrote + 1, @.logged)
                    ELSE Conn("closed", NoResponse, 0, @.wrote, @.logged + 1)]
    /\ NoHistory
    /\ UNCHANGED <<settingsVars, storeVars, pollId, pollSources, polls, localVars, peerVars>>

\* close_async of the output stream completes (ok) or fails (~ok, logged);
\* connection.close() follows.
CloseReply(c, ok) ==
    /\ conns[c].pc = "flushing"
    /\ conns' = [conns EXCEPT ![c] =
                    [@ EXCEPT !.pc = "closed", !.logged = IF ok THEN @ ELSE @ + 1]]
    /\ NoHistory
    /\ UNCHANGED <<settingsVars, storeVars, pollId, pollSources, polls, localVars, peerVars>>

\* The poll timer fires: _pollRemote sends a pull request (_sendMessage up
\* to its first await).
PollFire(q) ==
    /\ pollSources > 0
    /\ polls[q].pc = "idle"
    /\ sentPayload' = Msg("pull", nodeId, "CLIPBOARD", now, Undef, Secret)
    /\ polls' = IF peerEndpoint = NoEndpoint THEN polls
                ELSE [polls EXCEPT ![q] = Poll("sent", NoResponse)]
    /\ handled' = NotHandled
    /\ polled' = NotPolled
    /\ published' = NotPublished
    /\ accepted' = accepted
    /\ UNCHANGED <<settingsVars, storeVars, conns, pollId, pollSources, localVars, peerVars>>

\* _sendMessage gives up: the endpoint is unusable, connecting, writing or
\* reading fails, no line arrives or the line does not parse.  It returns
\* null and _pollRemote does nothing.
PollFail(q) ==
    /\ polls[q].pc = "sent"
    /\ polls' = [polls EXCEPT ![q] = IdlePoll]
    /\ NoHistory
    /\ UNCHANGED <<settingsVars, storeVars, conns, pollId, pollSources, localVars, peerVars>>

\* read_line_async completes with a line holding a JSON object; it is decoded
\* (which throws once disable() has dropped the decoder) and _sendMessage
\* awaits close_async.
PollReadLine(q, response) ==
    /\ polls[q].pc = "sent"
    /\ polls' = [polls EXCEPT ![q] =
                    IF enabled THEN Poll("closing", response) ELSE IdlePoll]
    /\ NoHistory
    /\ UNCHANGED <<settingsVars, storeVars, conns, pollId, pollSources, localVars, peerVars>>

\* The rest of _pollRemote once _sendMessage has returned the response: the
\* line of the return statement reached (439: applied, -1: an exception).
PollRemoteLine(response, en, store, self, sp) ==
    IF ~(response.status = "ok" /\ response.type = "update") THEN 0
    ELSE IF ~en /\ response.selection = "PRIMARY" THEN 0 - 1   \* _settings is null
    ELSE LET selection == SelectionFromKey(response.selection, sp) IN
         IF Falsy(selection) THEN 432
         ELSE IF ~ShouldAcceptUpdate(store, self, selection, response.timestamp,
                                     response.node, response.text) THEN 435
         ELSE IF ~en THEN 0 - 1                               \* _clipboard is null
         ELSE 439

\* close_async completes: _sendMessage returns the response (ok) or null
\* (~ok) and _pollRemote runs to its end.
PollRemote(q, ok) ==
    /\ polls[q].pc = "closing"
    /\ polls' = [polls EXCEPT ![q] = IdlePoll]
    /\ handled' = NotHandled
    /\ published' = NotPublished
    /\ sentPayload' = NoPayload
    /\ IF ~ok
       THEN /\ polled' = NotPolled
            /\ UNCHANGED <<storeVars, accepted>>
       ELSE LET response == polls[q].response
                line == PollRemoteLine(response, enabled, latestState, nodeId, syncPrimary)
                selection == SelectionFromKey(response.selection, syncPrimary)
            IN /\ polled' = Polled(response, line)
               /\ IF line = 439
                  THEN /\ ApplyRemote(selection, response.text, response.timestamp,
                                      response.node)
                       /\ Overwrites(SelectionKey(selection))
                  ELSE IF line = 0 - 1 /\ response.selection # "PRIMARY"
                  THEN \* _setClipboardFromRemote threw after marking the channel
                       /\ suppressedSelections' =
                              suppressedSelections \cup {SelectionKey(selection)}
                       /\ UNCHANGED <<latestState, clipboard, owner, signals, accepted>>
                  ELSE UNCHANGED <<storeVars, accepted>>
    /\ UNCHANGED <<settingsVars, conns, pollId, pollSources, localVars, peerVars>>

\* The user (or another application) puts a text, or something that is not
\* text (Undef), on a selection.
UserCopy(key, text) ==
    /\ clipboard' = [clipboard EXCEPT ![key] = text]
    /\ owner' = [owner EXCEPT ![key] = "user"]
    /\ OwnerChanged(key)
    /\ NoHistory
    /\ UNCHANGED <<settingsVars, latestState, suppressedSelections, netVars, localVars,
                   peerVars>>

\* _onOwnerChange(_clipboard, selection) for a numeric selection.
OnOwnerChange(selection) ==
    LET key == SelectionKey(selection) IN
    /\ selectionSignalId # 0
    /\ signals[key] > 0
    /\ signals' = [signals EXCEPT ![key] = @ - 1]
    /\ NoHistory
    /\ IF selection = PRIMARY /\ ~syncPrimary
       THEN UNCHANGED <<suppressedSelections, getText>>
       ELSE IF key \in suppressedSelections
       THEN /\ suppressedSelections' = suppressedSelections \ {key}
            /\ UNCHANGED getText
       ELSE /\ getText[<<key, TRUE>>] < MaxPending
            /\ getText' = [getText EXCEPT ![<<key, TRUE>>] = @ + 1]
            /\ UNCHANGED suppressedSelections
    /\ UNCHANGED <<settingsVars, latestState, clipboard, owner, netVars,
                   selectionSignalId, localWatchId, observedText, peerVars>>

\* The local watch timer fires: _checkLocalClipboard asks for the text of
\* every enabled selection.
CheckLocalClipboard ==
    LET selections == IF syncPrimary THEN {CLIPBOARD, PRIMARY} ELSE {CLIPBOARD} IN
    /\ localWatchId # 0
    /\ \A sel \in selections : getText[<<SelectionKey(sel), FALSE>>] < MaxPending
    /\ getText' = [cb \in Callbacks |->
                      IF ~cb[2] /\ \E sel \in selections : SelectionKey(sel) = cb[1]
                      THEN getText[cb] + 1 ELSE getText[cb]]
    /\ NoHistory
    /\ UNCHANGED <<settingsVars, storeVars, netVars,
                   selectionSignalId, localWatchId, observedText, peerVars>>

\* _publishClipboard: the record is stored; the payload is then built, which
\* throws once disable() has dropped the settings; _sendMessage returns at
\* once without a peer endpoint and writes the payload to the peer otherwise.
PublishClipboard(selection, text) ==
    LET key == SelectionKey(selection)
        payload == Msg("update", nodeId, key, now, text, Secret)
        written == enabled /\ peerEndpoint # NoEndpoint
    IN
    /\ latestState' = RecordState(latestState, selection, text, now, nodeId)
    /\ published' = Published(key, text, now, enabled)
    /\ sentPayload' = IF enabled THEN payload ELSE NoPayload
    /\ outbox' = IF written THEN outbox \cup {payload} ELSE outbox
    /\ stamps' = IF written THEN Stamp(stamps, now) ELSE stamps
    /\ Overwrites(key)

\* A get_text callback returns without publishing.
NoPublish ==
    /\ published' = NotPublished
    /\ sentPayload' = NoPayload
    /\ UNCHANGED <<latestState, accepted, outbox, stamps>>

\* A get_text callback runs with the text the selection holds now: the one
\* of _onOwnerChange (native) or the one of _checkLocalClipboard.
GetTextDone(selection, native) ==
    LET key == SelectionKey(selection)
        text == clipboard[key]
    IN
    /\ getText[<<key, native>>] > 0
    /\ getText' = [getText EXCEPT ![<<key, native>>] = @ - 1]
    /\ handled' = NotHandled
    /\ polled' = NotPolled
    /\ IF text = Undef
       THEN /\ NoPublish
            /\ UNCHANGED <<suppressedSelections, observedText>>
       ELSE IF native
       THEN /\ PublishClipboard(selection, text)
            /\ UNCHANGED <<suppressedSelections, observedText>>
       ELSE IF key \in suppressedSelections
       THEN /\ suppressedSelections' = suppressedSelections \ {key}
            /\ observedText' = [observedText EXCEPT ![key] = text]
            /\ NoPublish
       ELSE IF observedText[key] = text
       THEN /\ NoPublish
            /\ UNCHANGED <<suppressedSelections, observedText>>
       ELSE /\ observedText' = [observedText EXCEPT ![key] = text]
            /\ PublishClipboard(selection, text)
            /\ UNCHANGED suppressedSelections
    /\ UNCHANGED <<settingsVars, clipboard, owner, signals, netVars,
                   selectionSignalId, localWatchId, peerState, peerNow, inbox>>

\* _clearPolling: the source behind this._pollId, if any, is removed.
ClearPolling(id, sources) == IF id # 0 THEN sources - 1 ELSE sources

\* Mutant: the earlier timer is not removed before a new one is created.
UpdatePolling_NoClear(interval) ==
    /\ enabled
    /\ interval # pollInterval
    /\ pollInterval' = interval
    /\ IF interval <= 0
       THEN pollId' = 0 /\ pollSources' = ClearPolling(pollId, pollSources)
       ELSE /\ pollSources < MaxTimers
            /\ pollId' = 1
            /\ pollSources' = pollSources + 1
    /\ NoHistory
    /\ UNCHANGED <<enabled, syncPrimary, nodeId, now, peerEndpoint, storeVars,
                   conns, polls, localVars, peerVars>>

\* 'poll-interval' changes in the settings: _updatePolling.
UpdatePolling(interval) ==
    /\ enabled
    /\ interval # pollInterval
    /\ pollInterval' = interval
    /\ IF interval <= 0
       THEN pollId' = 0 /\ pollSources' = ClearPolling(pollId, pollSources)
       ELSE /\ ClearPolling(pollId, pollSources) < MaxTimers
            /\ pollId' = 1
            /\ pollSources' = ClearPolling(pollId, pollSources) + 1
    /\ NoHistory
    /\ UNCHANGED <<enabled, syncPrimary, nodeId, now, peerEndpoint, storeVars,
                   conns, polls, localVars, peerVars>>

\* disable()
Disable ==
    /\ enabled
    /\ enabled' = FALSE
    /\ nodeId' = NullNode
    /\ pollId' = 0
    /\ pollSources' = ClearPolling(pollId, pollSources)
    /\ selectionSignalId' = 0
    /\ localWatchId' = 0
    /\ suppressedSelections' = {}
    /\ latestState' = [k \in Keys |-> NoState]
    /\ observedText' = [k \in Keys |-> Undef]
    /\ handled' = NotHandled
    /\ polled' = NotPolled
    /\ published' = NotPublished
    /\ sentPayload' = NoPayload
    /\ accepted' = NoPayload
    /\ UNCHANGED <<syncPrimary, now, pollInterval, peerEndpoint, clipboard, owner,
                   signals, conns, polls, getText, peerVars>>

\* ------------------------------------------------------------- the peer
\* The peer runs the same program; its local change path is taken as one
\* step and its clipboard is left out.

\* The peer's wall clock advances.
PeerTick ==
    /\ peerNow < MaxClock
    /\ peerNow' = peerNow + 1
    /\ NoHistory
    /\ UNCHANGED <<settingsVars, storeVars, netVars, localVars,
                   peerState, inbox, outbox, stamps>>

\* The peer's _publishClipboard: a local change of CLIPBOARD on the peer is
\* recorded there and pushed to this node.
PeerPublish(text) ==
    LET payload == Msg("update", PeerNodeId, "CLIPBOARD", peerNow, text, Secret) IN
    /\ peerEndpoint # NoEndpoint
    /\ peerState' = RecordState(peerState, CLIPBOARD, text, peerNow, PeerNodeId)
    /\ inbox' = inbox \cup {payload}
    /\ stamps' = Stamp(stamps, peerNow)
    /\ NoHistory
    /\ UNCHANGED <<settingsVars, storeVars, netVars, localVars, peerNow, outbox>>

\* The peer's _handlePayload on an update pushed by this node.
PeerReceive(payload) ==
    /\ payload \in outbox
    /\ outbox' = outbox \ {payload}
    /\ peerState' = AfterUpdate(peerState, payload, PeerNodeId, FALSE, peerNow)
    /\ NoHistory
    /\ UNCHANGED <<settingsVars, storeVars, netVars, localVars, peerNow, inbox, stamps>>

\* The response of the peer to a pull for CLIPBOARD.
PeerPullResponse ==
    PullAnswer("CLIPBOARD", peerState, PeerNodeId).response

\* A push to the peer is lost: connecting or writing fails (logged).
PushFail(payload) ==
    /\ payload \in outbox
    /\ outbox' = outbox \ {payload}
    /\ NoHistory
    /\ UNCHANGED <<settingsVars, storeVars, netVars, localVars,
                   peerState, peerNow, inbox, stamps>>

\* ------------------------------------------------------- specifications
Selections == {CLIPBOARD, PRIMARY}

Environment ==
    \/ Tick
    \/ SetSyncPrimary
    \/ Disable

Server(payloads) ==
    \/ \E c \in DOMAIN conns : HandleIncoming(c)
    \/ \E c \in DOMAIN conns, kind \in LineKinds \ {"object"} :
          ProcessIncoming(c, kind, NoPayload)
    \/ \E c \in DOMAIN conns, p \in payloads : ProcessIncoming(c, "object", p)
    \/ \E c \in DOMAIN conns, ok \in BOOLEAN : WriteReply(c, ok)
    \/ \E c \in DOMAIN conns, ok \in BOOLEAN : CloseReply(c, ok)

Poller(responses) ==
    \/ \E q \in DOMAIN polls : PollFire(q)
    \/ \E q \in DOMAIN polls : PollFail(q)
    \/ \E q \in DOMAIN polls, r \in responses : PollReadLine(q, r)
    \/ \E q \in DOMAIN polls, ok \in BOOLEAN : PollRemote(q, ok)

Local ==
    \/ \E k \in Keys, t \in (1..MaxText) \cup {Undef} : UserCopy(k, t)
    \/ \E sel \in Selections : OnOwnerChange(sel)
    \/ CheckLocalClipboard
    \/ \E sel \in Selections, native \in BOOLEAN : GetTextDone(sel, native)

\* The settings signal 'changed::poll-interval'.
PollIntervals == 0..MaxInterval

Polling == \E interval \in PollIntervals : UpdatePolling(interval)

\* The peer node and the two directions of the wire.
Peer ==
    \/ PeerTick
    \/ \E t \in 1..MaxText : PeerPublish(t)
    \/ \E m \in outbox : PeerReceive(m)
    \/ \E c \in DOMAIN conns, m \in inbox : ProcessIncoming(c, "object", m)
    \/ \E q \in DOMAIN polls : PollReadLine(q, PeerPullResponse)

\* The whole program under every input.
Next ==
    \/ Environment \/ Polling
    \/ Server(Payloads) \/ Poller(PullResponses) \/ Local
    \/ Peer \/ \E m \in outbox : PushFail(m)

Spec == Init /\ [][Next]_vars

\* The specifications below restrict Next to a part of the program and to a
\* part of its inputs, to keep the reachable states within what TLC can
\* enumerate.

\* The sync server alone, under every request of Payloads.
NextServer == Environment \/ Server(Payloads)

SpecServer == InitWith(Connections, PullRequests, {FALSE}, {0}, {NoEndpoint}) /\ [][NextServer]_vars

\* The server and the poller together: both ways a remote update comes in.
NextRemote == Environment \/ Server(CorePayloads) \/ Poller(CoreResponses)

SpecRemote == InitWith(Connections, PullRequests, {FALSE}, {1}, {PeerEndpoint}) /\ [][NextRemote]_vars

\* Two connections at a time.
TwoConnections == {"c1", "c2"}

NextConns == Environment \/ Server(CorePayloads)

SpecConns == InitWith(TwoConnections, PullRequests, {FALSE}, {0}, {NoEndpoint}) /\ [][NextConns]_vars

\* The local change path under both backends, with the server applying
\* remote updates and answering pulls.
NextLocal == Environment \/ Server(PeerPayloads) \/ Local

SpecLocal == InitWith(Connections, PullRequests, BOOLEAN, {0}, {NoEndpoint}) /\ [][NextLocal]_vars

\* Reconciliation alone: updates of CLIPBOARD that carry a timestamp, from
\* any node, handled one after another while the clock advances.
ExplicitUpdates ==
    { p \in UpdatePayloads :
        p.type = "update" /\ p.selection = "CLIPBOARD" /\ p.timestamp # Undef }

NextOrder == Tick \/ Server(ExplicitUpdates)

SpecOrder == InitWith(Connections, PullRequests, {FALSE}, {0}, {NoEndpoint}) /\ [][NextOrder]_vars

\* The responses of a peer to a pull for CLIPBOARD: a record of the peer's
\* clock, no record, or a refusal.
PeerResponses ==
    { r \in CoreResponses :
        r.status = "ok" =>
          (r.node = PeerNodeId /\ r.selection = "CLIPBOARD" /\ r.timestamp > 0) }

\* The poll timer: changes of 'poll-interval', and two pulls at a time.
TwoPullRequests == {"q1", "q2"}

NextPolling == Environment \/ Polling \/ Poller(PeerResponses)

SpecPolling ==
    /\ InitWith(Connections, TwoPullRequests, {FALSE}, {0, 1}, {NoEndpoint, PeerEndpoint})
    /\ [][NextPolling]_vars

\* Two inbound connections and a pull in flight at once.
NextAtomic == Tick \/ Server(PeerPayloads) \/ Poller(PeerResponses)

SpecAtomic ==
    /\ InitWith(TwoConnections, PullRequests, {FALSE}, {1}, {PeerEndpoint})
    /\ [][NextAtomic]_vars

\* The two nodes and the wire between them, CLIPBOARD only: local changes on
\* both sides, every push delivered, pulls answered by the peer.
NextPair ==
    \/ Tick
    \/ Peer
    \/ \E t \in 1..MaxText : UserCopy("CLIPBOARD", t)
    \/ OnOwnerChange(CLIPBOARD)
    \/ GetTextDone(CLIPBOARD, TRUE)
    \/ \E c \in DOMAIN conns : HandleIncoming(c)
    \/ \E c \in DOMAIN conns : WriteReply(c, TRUE)
    \/ \E c \in DOMAIN conns : CloseReply(c, TRUE)
    \/ \E q \in DOMAIN polls : PollFire(q)
    \/ \E q \in DOMAIN polls : PollRemote(q, TRUE)

SpecPair ==
    /\ InitWith(Connections, PullRequests, {TRUE}, {1}, {PeerEndpoint})
    /\ [][NextPair]_vars

\* ---------------------------------------------------------------- claims
\* What the step that leads to the primed state handled, and its answer.
Request == handled'.payload
Answer == conns'[handled'.conn].response

\* The step is _handlePayload on a JSON object, the extension being enabled.
HandlesObject == enabled /\ handled'.line = "object"
HandlesUpdate ==
    HandlesObject /\ Authorized(Request) /\ EffectiveType(Request.type) = "update"
HandlesPull ==
    HandlesObject /\ Authorized(Request) /\ EffectiveType(Request.type) = "pull"

\* The step leaves the StateStore, the suppression set and the clipboard alone.
NoMutation == UNCHANGED <<latestState, suppressedSelections, clipboard>>

\* C1: an update B whose timestamp is smaller than the timestamp of the
\* stored record A of its channel is rejected ('ignored' on the server path,
\* dropped on the pull path) and the stored record stays A's.
C1_StaleRejected ==
    [][ /\ ( /\ HandlesUpdate
             /\ Request.selection \in Keys
             /\ latestState[Request.selection].present
             /\ JsLess(Request.timestamp, latestState[Request.selection].timestamp) )
           => (Answer.status = "ignored" /\ latestState' = latestState)
        /\ ( /\ polled'.response.status = "ok"
             /\ polled'.response.selection \in Keys
             /\ latestState[polled'.response.selection].present
             /\ JsLess(polled'.response.timestamp,
                       latestState[polled'.response.selection].timestamp) )
           => (polled'.ret # 439 /\ latestState' = latestState)
      ]_vars

\* C2: the update that was accepted is delivered again (same channel,
\* timestamp and text): it is answered 'ignored' and the stored record stays.
C2_SecondPushIgnored ==
    [][ ( /\ HandlesUpdate
          /\ Request = accepted
          /\ Request.timestamp # Undef )
        => (Answer = Response("ignored", NoField) /\ latestState' = latestState)
      ]_vars

\* C3: an incoming update (server push or pull response) whose node is the
\* local node id is rejected, with or without a stored record, and it
\* changes neither the StateStore, the suppression set nor the clipboard.
C3_SelfEcho ==
    [][ /\ ( /\ HandlesObject
             /\ EffectiveType(Request.type) = "update"
             /\ Request.node = nodeId )
           => (Answer.status \in {"ignored", "error", "unauthorized"} /\ NoMutation)
        /\ ( /\ polled'.response.status = "ok"
             /\ polled'.response.node = nodeId )
           => (polled'.ret \in {432, 435} /\ NoMutation)
      ]_vars

C3_Witness ==
    /\ enabled
    /\ handled.line = "object"
    /\ handled.payload.type = "update"
    /\ handled.payload.secret = Secret
    /\ handled.payload.selection = "CLIPBOARD"
    /\ handled.payload.node = LocalNodeId
    /\ ~latestState["CLIPBOARD"].present
    /\ conns[handled.conn].response.status = "ignored"

\* C4: a request object whose secret is not the shared secret is answered
\* {status:'unauthorized'} whatever its type and other fields, and nothing
\* is mutated.
C4_Unauthorized ==
    [][ (HandlesObject /\ Request.secret # Secret)
        => (Answer = Response("unauthorized", NoField) /\ NoMutation)
      ]_vars

C4_Witness ==
    /\ enabled
    /\ handled.line = "object"
    /\ handled.payload.secret # Secret
    /\ handled.payload.type = "update"
    /\ handled.payload.selection = "CLIPBOARD"
    /\ handled.payload.node = PeerNodeId
    /\ handled.payload.timestamp = 1
    /\ ~latestState["CLIPBOARD"].present
    /\ conns[handled.conn].response.status = "unauthorized"

\* C5 as stated: a pull returns the record's timestamp, text and origin node.
C5_PullReturnsOrigin ==
    [][ HandlesPull =>
          LET state == StateGet(latestState, PullKey(Request.selection)) IN
          /\ latestState' = latestState
          /\ IF state.present
             THEN /\ Answer.status = "ok"
                  /\ Answer.timestamp = state.timestamp
                  /\ Answer.text = state.text
                  /\ Answer.node = state.node
             ELSE Answer = Response("empty", NoField)
      ]_vars

\* C5 amended: a pull returns the record's timestamp and text under the
\* responder's own node id; without a record it returns 'empty'; it never
\* changes the StateStore.
C5_PullReturnsRecord ==
    [][ HandlesPull =>
          LET state == StateGet(latestState, PullKey(Request.selection)) IN
          /\ NoMutation
          /\ IF state.present
             THEN Answer = PullReply(LocalNodeId, PullKey(Request.selection),
                                     state.timestamp, state.text)
             ELSE Answer = Response("empty", NoField)
      ]_vars

C5_Witness ==
    /\ enabled
    /\ handled.line = "object"
    /\ handled.payload.type = "pull"
    /\ handled.payload.secret = Secret
    /\ handled.payload.selection = "CLIPBOARD"
    /\ latestState["CLIPBOARD"].present
    /\ latestState["CLIPBOARD"].node = PeerNodeId
    /\ conns[handled.conn].response.status = "ok"
    /\ conns[handled.conn].response.node = LocalNodeId

\* C6: after an update (c, t, x) was answered 'ok' and while its record is
\* the stored one, a pull for c is answered with the responder's node id,
\* c, t and x.
C6_PushThenPull ==
    [][ ( /\ HandlesPull
          /\ accepted # NoPayload
          /\ PullKey(Request.selection) = accepted.selection
          /\ accepted.timestamp # Undef
          /\ accepted.text # Undef )
        => Answer = PullReply(LocalNodeId, accepted.selection,
                              accepted.timestamp, accepted.text)
      ]_vars

\* C7: an authorized update is answered 'Unknown selection' exactly when its
\* selection is neither CLIPBOARD nor PRIMARY, or is PRIMARY with sync-primary
\* off; otherwise it reaches the reconciliation decision.
C7_SelectionResolution ==
    [][ HandlesUpdate =>
          LET unknown == \/ Request.selection \notin {"CLIPBOARD", "PRIMARY"}
                         \/ Request.selection = "PRIMARY" /\ ~syncPrimary
          IN IF unknown
             THEN Answer = Response("error", "Unknown selection")
             ELSE Answer.status \in {"ok", "ignored"}
      ]_vars

\* C8: while sync-primary is off, no request naming PRIMARY is answered 'ok'
\* or with record data, and no PRIMARY change is recorded or pushed.
C8_PrimaryGated ==
    [][ ~syncPrimary =>
          /\ (HandlesObject /\ Authorized(Request) /\ Request.selection = "PRIMARY")
             => (Answer.status # "ok" /\ Answer.text = Undef /\ NoMutation)
          /\ published'.key # "PRIMARY"
          /\ latestState'["PRIMARY"].present
             => latestState'["PRIMARY"] = latestState["PRIMARY"]
      ]_vars

\* C9 as stated: no line, or a line that does not parse, is answered 'error'
\* with a message and mutates nothing.
C9_ProtocolError ==
    [][ handled'.line \in {"null", "garbage"}
        => (Answer.status = "error" /\ Answer.message # NoField /\ NoMutation)
      ]_vars

\* C9 amended: a line that does not parse (a zero-length line included) is
\* answered 'error' with a message; a read that yields no line is answered
\* {status:'ignored'}; neither mutates anything.
C9_ProtocolErrorOrIgnored ==
    [][ /\ handled'.line = "garbage"
           => (Answer.status = "error" /\ Answer.message # NoField /\ NoMutation)
        /\ handled'.line = "null"
           => (Answer = Response("ignored", NoField) /\ NoMutation)
      ]_vars

C9_Witness ==
    /\ handled.line = "null"
    /\ conns[handled.conn].response.status = "ignored"
    /\ latestState["CLIPBOARD"].present

\* C10: once the read of a connection has completed, exactly one response
\* line is written (or the failed write is logged) and the connection is
\* closed, on every path; writing and closing touch nothing else, the
\* other connections included.
C10_OneResponse ==
    [][ \A c \in DOMAIN conns :
          LET before == conns[c]
              after == conns'[c]
              OnlyThis == /\ \A d \in DOMAIN conns \ {c} : conns'[d] = conns[d]
                          /\ UNCHANGED <<settingsVars, storeVars>>
          IN after # before =>
             /\ before.pc = "reading"
                => /\ after.pc = "replying"
                   /\ after.response.status \in
                         {"ok", "ignored", "empty", "unauthorized", "error"}
                   /\ after.wrote = 0
             /\ before.pc = "replying"
                => /\ \/ after.pc = "flushing" /\ after.wrote = 1 /\ after.logged = 0
                      \/ after.pc = "closed" /\ after.wrote = 0 /\ after.logged = 1
                   /\ OnlyThis
             /\ before.pc = "flushing"
                => /\ after.pc = "closed" /\ after.wrote = 1
                   /\ OnlyThis
             /\ before.pc \in {"idle", "closed"} => after.pc = "reading"
      ]_vars

C10_Witness ==
    /\ ~enabled
    /\ conns["c1"].pc = "closed"
    /\ conns["c1"].wrote = 1
    /\ conns["c2"].pc = "closed"
    /\ conns["c2"].logged = 1
    /\ conns["c2"].wrote = 0

\* C11: a clipboard change made by applying a remote update is never
\* published by this node, under both backends and every interleaving.
C11_NoEcho ==
    [][ (enabled /\ published'.key # "none") => owner[published'.key] # "remote"
      ]_vars

\* The response the spec gives to an unsupported type.
UnsupportedType(type) ==
    Response("error", IF type = NoField THEN "Unsupported payload type: undefined"
                      ELSE "Unsupported payload type: other")

\* C12: an authorized request whose type is neither 'update' nor 'pull' is
\* answered 'Unsupported payload type' and mutates nothing.
C12_UnsupportedType ==
    [][ (HandlesObject /\ Authorized(Request) /\ Request.type \notin {"update", "pull"})
        => (Answer = UnsupportedType(Request.type) /\ NoMutation)
      ]_vars

\* C13: from the stored record of any reachable state, two updates of a
\* channel with explicit, different timestamps leave the same record in
\* either order of delivery (the first at the present clock, the second at
\* the present or a later one).
C13_OrderIndependent ==
    enabled =>
      \A p1, p2 \in ExplicitUpdates, later \in now..MaxClock :
        p1.timestamp # p2.timestamp =>
          AfterUpdate(AfterUpdate(latestState, p1, nodeId, syncPrimary, now),
                      p2, nodeId, syncPrimary, later)
          = AfterUpdate(AfterUpdate(latestState, p2, nodeId, syncPrimary, now),
                        p1, nodeId, syncPrimary, later)

\* The change path of CLIPBOARD has nothing left to do: no notification and
\* no get_text callback is pending and, with the local watch, the watch has
\* observed the present text.
LocalQuiet ==
    /\ signals["CLIPBOARD"] = 0
    /\ \A native \in BOOLEAN : getText[<<"CLIPBOARD", native>>] = 0
    /\ selectionSignalId # 0 \/ observedText["CLIPBOARD"] = clipboard["CLIPBOARD"]

\* C19: a text the user put on CLIPBOARD is recorded under the local node
\* id once the change path has run; it is never swallowed by a suppression
\* flag left by a remote apply.
C19_NoLostEdit ==
    (/\ enabled
     /\ owner["CLIPBOARD"] = "user"
     /\ clipboard["CLIPBOARD"] # Undef
     /\ LocalQuiet)
    => /\ latestState["CLIPBOARD"].present
       /\ latestState["CLIPBOARD"].text = clipboard["CLIPBOARD"]
       /\ latestState["CLIPBOARD"].node = nodeId

\* The step is the completion of an operation in flight: a line read by the
\* server, a pull response, or a get_text callback.
Completion ==
    handled' # NotHandled \/ polled' # NotPolled \/ getText' # getText

\* C14: after disable() no timer and no signal is left and no connection is
\* accepted; a completion that arrives later changes neither the StateStore,
\* the suppression set nor the clipboard, and _publishClipboard (which
\* throws without settings) is not reached.
C14_Shutdown ==
    [][ ~enabled' =>
          /\ pollId' = 0 /\ pollSources' = 0
          /\ localWatchId' = 0 /\ selectionSignalId' = 0
          /\ \A c \in DOMAIN conns : conns'[c].pc = "reading" => conns[c].pc = "reading"
          /\ (~enabled /\ Completion)
             => /\ NoMutation
                /\ published'.key = "none"
      ]_vars

\* C17: the timestamp of the stored record of a channel never decreases
\* while the extension is enabled.
C17_MonotoneStore ==
    [][ \A k \in Keys :
          (enabled' /\ latestState[k].present)
          => /\ latestState'[k].present
             /\ latestState'[k].timestamp >= latestState[k].timestamp
      ]_vars

\* C20: every write of remote data into the StateStore is made by the
\* handler of a request whose secret was compared with the shared secret.
C20_AuthenticatedWrites ==
    [][ (enabled' /\ latestState' # latestState /\ published'.key = "none")
        => (handled'.line = "object" /\ Authorized(Request))
      ]_vars

\* While enabled, one poll timer is armed if 'poll-interval' is positive
\* and none otherwise.
TimerArmed ==
    enabled => /\ pollSources = (IF pollInterval > 0 THEN 1 ELSE 0)
               /\ (pollId # 0) = (pollInterval > 0)

\* C15: after enable() and after every change of 'poll-interval' exactly one
\* poll timer is armed if the interval is positive, none otherwise; every
\* firing hands one pull request for CLIPBOARD to _sendMessage and touches
\* no pull in flight.
C15_PollScheduling ==
    /\ []TimerArmed
    /\ [][ /\ sentPayload'.type = "pull"
              => sentPayload' = Msg("pull", nodeId, "CLIPBOARD", now, Undef, Secret)
           /\ \A q \in DOMAIN polls :
                (polls[q].pc = "idle" /\ polls'[q].pc = "sent")
                => /\ pollSources > 0
                   /\ sentPayload'.type = "pull"
                   /\ \A o \in DOMAIN polls \ {q} : polls'[o] = polls[o]
         ]_vars

C15_Witness ==
    /\ enabled
    /\ pollInterval = MaxInterval
    /\ pollSources = 1
    /\ polls["q1"].pc = "closing"
    /\ polls["q2"].pc = "sent"
    /\ sentPayload.type = "pull"
    /\ sentPayload.selection = "CLIPBOARD"

\* C16: with several connections and a pull in flight, every update is
\* decided on the StateStore of the very step that applies it, and the mark,
\* the clipboard write and the record are made in that step: each step of a
\* handler maps the store to the store a sequential run would give, and no
\* other step of a connection or a pull touches it.
C16_AtomicApply ==
    [][ /\ HandlesObject
           => /\ latestState' = AfterUpdate(latestState, Request, nodeId, syncPrimary, now)
              /\ Answer.status = "ok"
                 => /\ Request.selection \in suppressedSelections'
                    /\ clipboard'[Request.selection] = latestState'[Request.selection].text
        /\ polled'.ret = 439
           => LET r == polled'.response IN
              /\ ShouldAcceptUpdate(latestState, nodeId, SelectionFromKey(r.selection, syncPrimary),
                                    r.timestamp, r.node, r.text)
              /\ latestState' = [latestState EXCEPT ![r.selection] =
                                    StateRecord(r.text, r.timestamp, r.node)]
              /\ r.selection \in suppressedSelections'
              /\ clipboard'[r.selection] = r.text
        /\ (~HandlesObject /\ polled'.ret # 439) => NoMutation
      ]_vars

C16_Witness ==
    /\ conns["c1"].pc = "replying" /\ conns["c1"].response.status = "ok"
    /\ conns["c2"].pc = "replying" /\ conns["c2"].response.status = "ok"
    /\ polled.ret = 439
    /\ latestState["CLIPBOARD"].timestamp = MaxTs

\* Nothing is in flight between the two nodes nor inside this node.
Quiescent ==
    /\ inbox = {} /\ outbox = {}
    /\ \A c \in DOMAIN conns : conns[c].pc \in {"idle", "closed"}
    /\ \A q \in DOMAIN polls : polls[q].pc = "idle"
    /\ LocalQuiet

\* No two pushed updates share a timestamp.
NoTies == \A ts \in DOMAIN stamps : stamps[ts] <= 1

\* C18: when every push was delivered, no two updates share a timestamp
\* and both nodes are quiescent, the two nodes hold the same text and
\* timestamp for CLIPBOARD.
C18_Convergence ==
    (Quiescent /\ NoTies)
    => /\ latestState["CLIPBOARD"].present = peerState["CLIPBOARD"].present
       /\ latestState["CLIPBOARD"].text = peerState["CLIPBOARD"].text
       /\ latestState["CLIPBOARD"].timestamp = peerState["CLIPBOARD"].timestamp
====
